---- MODULE Spec2Model ----
(***************************************************************************)
(* Model of src/server.py: the Flask handler generate_route_plan, the      *)
(* message normalizer _normalize_messages and the lru_cache'd              *)
(* build_client.                                                           *)
(*                                                                         *)
(* Python values are kept as tagged records so that values of different    *)
(* Python types can be compared: a string is the sequence of its           *)
(* characters, None and an absent dictionary key are both what dict.get    *)
(* returns for them (None). The request fields max_completion_tokens and    *)
(* temperature are only handed on to the upstream call (lines 129-130),    *)
(* whose outcome is left open, and are not kept.                           *)
(***************************************************************************)
EXTENDS Integers, Sequences, FiniteSets, TLC

(* ------------------------------ bounds -------------------------------- *)
MaxStrLen == 2
MaxHist == 2
MaxThreads == 2
MaxResolutions == 2

(* --------------------------- Python values ---------------------------- *)
JNull == [t |-> "null"]
JStr(s) == [t |-> "str", s |-> s]
JNum(n) == [t |-> "num", n |-> n]
JList(xs) == [t |-> "list", items |-> xs]
JObj(f) == [t |-> "obj", f |-> f]

\* A word of the program text (a role name, a key) is one symbol of a string.
Lit(w) == JStr(<<w>>)

EmptyStr == JStr(<< >>)
EmptyObj == JObj([k \in {} |-> JNull])

\* The instruction text of lines 14-40, abbreviated to two symbols standing for
\* its first and its last character; neither is whitespace.
SYSTEM_PROMPT == JStr(<<"SP1", "SP2">>)

\* bool(v)
Truthy(v) ==
  CASE v.t = "null" -> FALSE
    [] v.t = "bad" -> FALSE
    [] v.t = "str" -> Len(v.s) > 0
    [] v.t = "num" -> v.n # 0
    [] v.t = "list" -> Len(v.items) > 0
    [] v.t = "obj" -> DOMAIN v.f # {}
    [] OTHER -> TRUE

\* a or b
Or(a, b) == IF Truthy(a) THEN a ELSE b

\* dict.get(key): None when the key is absent
Get(o, k) == IF k \in DOMAIN o.f THEN o.f[k] ELSE JNull

IsSpace(c) == c = " "

RECURSIVE lstrip(_)
lstrip(s) == IF Len(s) > 0 /\ IsSpace(Head(s)) THEN lstrip(Tail(s)) ELSE s

RECURSIVE rstrip(_)
rstrip(s) ==
  IF Len(s) > 0 /\ IsSpace(s[Len(s)]) THEN rstrip(SubSeq(s, 1, Len(s) - 1)) ELSE s

\* str.strip()
strip(s) == rstrip(lstrip(s))

TextPart(text) == JObj([k \in {"type", "text"} |-> IF k = "type" THEN Lit("text") ELSE text])

Message(role, content) == [role |-> role, content |-> content]

\* What an operation hands back: a value, or the exception it raised.
Return(v) == [ok |-> TRUE, v |-> v]
Raise(e) == [ok |-> FALSE, exc |-> e]

(* ------------------------- _normalize_messages ------------------------ *)
\* The loop of lines 81-92 over the entries from index i on, appending to acc.
\* message.get on an entry that is no dictionary raises AttributeError.
RECURSIVE normalize_loop(_, _, _)
normalize_loop(user_messages, i, acc) ==
  IF i > Len(user_messages) THEN Return(acc)
  ELSE LET message == user_messages[i] IN
    IF message.t # "obj" THEN Raise("AttributeError")
    ELSE LET role == Get(message, "role")
             content == Get(message, "content")
         IN IF ~Truthy(role) \/ content = JNull
              THEN normalize_loop(user_messages, i + 1, acc)
            ELSE IF content.t = "str"
              THEN normalize_loop(user_messages, i + 1,
                     Append(acc, Message(role, JList(<<TextPart(content)>>))))
            ELSE IF content.t = "list"
              THEN normalize_loop(user_messages, i + 1, Append(acc, Message(role, content)))
            ELSE normalize_loop(user_messages, i + 1, acc)

\* _normalize_messages with the history appended ahead of the system message.
_normalize_messages_system_late(user_messages, prompt) ==
  LET system == Message(Lit("system"), JList(<<TextPart(SYSTEM_PROMPT)>>))
      looped == normalize_loop(user_messages, 1, << >>)
      tail == IF Truthy(prompt)
                THEN <<Message(Lit("user"), JList(<<TextPart(prompt)>>))>> ELSE << >>
  IN IF ~looped.ok THEN looped ELSE Return(looped.v \o <<system>> \o tail)

\* _normalize_messages without the test of line 94.
_normalize_messages_always_prompt(user_messages, prompt) ==
  LET system == Message(Lit("system"), JList(<<TextPart(SYSTEM_PROMPT)>>))
      looped == normalize_loop(user_messages, 1, <<system>>)
  IN IF ~looped.ok THEN looped
     ELSE Return(Append(looped.v, Message(Lit("user"), JList(<<TextPart(prompt)>>))))

_normalize_messages(user_messages, prompt) ==
  LET system == Message(Lit("system"), JList(<<TextPart(SYSTEM_PROMPT)>>))
      looped == normalize_loop(user_messages, 1, <<system>>)
  IN IF ~looped.ok THEN looped
     ELSE IF Truthy(prompt)
       THEN Return(Append(looped.v, Message(Lit("user"), JList(<<TextPart(prompt)>>))))
     ELSE looped

(* --------------------------- build_client ----------------------------- *)
\* os.getenv(name)
getenv(env, name) == env[name]

EnvNames ==
  {"AZURE_OPENAI_ENDPOINT", "ENDPOINT_URL", "AZURE_OPENAI_DEPLOYMENT",
   "DEPLOYMENT_NAME", "AZURE_OPENAI_API_KEY"}

NoConfig == [client |-> 0, deployment |-> JNull]

\* The body of build_client (lines 50-65) run in environment env, when n
\* clients have been constructed so far: the configuration with a new client,
\* or ConfigurationError.
build_client_body(env, n) ==
  LET endpoint == Or(getenv(env, "AZURE_OPENAI_ENDPOINT"), getenv(env, "ENDPOINT_URL"))
      deployment == Or(getenv(env, "AZURE_OPENAI_DEPLOYMENT"), getenv(env, "DEPLOYMENT_NAME"))
      api_key == getenv(env, "AZURE_OPENAI_API_KEY")
  IN IF ~Truthy(endpoint) \/ ~Truthy(deployment) \/ ~Truthy(api_key)
       THEN Raise("ConfigurationError")
     ELSE Return([client |-> n + 1, deployment |-> deployment])

(* ------------------------ generate_route_plan ------------------------- *)
NotJson == [t |-> "bad"]

\* request.get_json(silent=True): None when the body is no JSON
get_json(raw) == IF raw.t = "bad" THEN JNull ELSE raw

\* line 112
payload_of(raw) == Or(get_json(raw), EmptyObj)

\* prompt_of without the .strip() of line 113.
prompt_of_unstripped(payload) ==
  IF payload.t # "obj" THEN Raise("AttributeError")
  ELSE LET p == Or(Or(Get(payload, "prompt"), Get(payload, "user_prompt")), EmptyStr)
       IN IF p.t # "str" THEN Raise("AttributeError") ELSE Return(p)

\* line 113; payload.get on a value that is no dictionary, and .strip() on a
\* value that is no string, raise AttributeError.
prompt_of(payload) ==
  IF payload.t # "obj" THEN Raise("AttributeError")
  ELSE LET p == Or(Or(Get(payload, "prompt"), Get(payload, "user_prompt")), EmptyStr)
       IN IF p.t # "str" THEN Raise("AttributeError") ELSE Return(JStr(strip(p.s)))

\* line 114
user_messages_of(payload) == Or(Get(payload, "messages"), JList(<< >>))

\* line 116
MissingInput(prompt, user_messages) == ~Truthy(prompt) /\ ~Truthy(user_messages)

\* line 122: the first argument of _normalize_messages
history_of(user_messages) == IF user_messages.t = "list" THEN user_messages.items ELSE << >>

Json(status, body) == [kind |-> "json", status |-> status, body |-> body]
Unhandled(exc) == [kind |-> "raised", exc |-> exc]
NoResponse == [kind |-> "none"]

MissingInputMessage == Lit("missing-input message")
ConfigurationErrorMessage == Lit("configuration-error message")
UpstreamFailureMessage == Lit("upstream-failure message")

\* lines 117-120
BadRequest == Json(400, [k \in {"error"} |-> MissingInputMessage])
\* line 133
ConfigFailure == Json(500, [k \in {"error"} |-> ConfigurationErrorMessage])
\* lines 135-138
UpstreamFailure(exc) ==
  Json(502, [k \in {"error", "detail"} |-> IF k = "error" THEN UpstreamFailureMessage ELSE exc.text])

\* flask.jsonify (line 156): Flask's JSON provider serializes None, strings,
\* numbers, lists and dictionaries (and dates, decimals, UUIDs, dataclasses and
\* objects with __html__, none of which occurs here) and raises TypeError for
\* any other object, such as the pydantic model the openai client returns as
\* completion.usage.
Serializable(v) == v.t \in {"null", "str", "num", "list", "obj"}

jsonify(body) ==
  IF \A k \in DOMAIN body : Serializable(body[k]) THEN Return(Json(200, body))
  ELSE Raise("TypeError")

\* lines 140-154: the response payload built from a completion
response_payload(completion) ==
  LET choices == completion.choices
      choice == IF Len(choices) > 0 THEN choices[1] ELSE JNull
      message_content ==
        IF Truthy(choice) /\ Truthy(choice.message)
          THEN Or(choice.message.content, EmptyStr) ELSE EmptyStr
      has_finish == Truthy(choice) /\ Truthy(choice.finish_reason)
      has_message == Truthy(choice) /\ Truthy(choice.message)
      keys == {"content", "usage"}
                \cup (IF has_finish THEN {"finish_reason"} ELSE {})
                \cup (IF has_message THEN {"message_role"} ELSE {})
  IN [k \in keys |->
        CASE k = "content" -> message_content
          [] k = "usage" -> completion.usage
          [] k = "finish_reason" -> choice.finish_reason
          [] k = "message_role" -> choice.message.role]

(* ----------------------- requests and replies ------------------------- *)
Chars == {" ", "a"}
Strs == UNION {[1..k -> Chars] : k \in 0..MaxStrLen}

\* A dictionary with the given keys, leaving out those whose value is absent.
Dict(fields) ==
  JObj([k \in {x \in DOMAIN fields : fields[x] # JNull} |-> fields[k]])

Entry(role, content) == Dict([role |-> role, content |-> content])

Entries ==
  { JNull,
    Entry(JNull, JNull),
    Entry(Lit("user"), JStr(<<"a">>)),
    Entry(Lit("system"), JList(<<TextPart(SYSTEM_PROMPT)>>)),
    Entry(Lit("user"), JNum(5)) }

Histories == UNION {[1..k -> Entries] : k \in 1..MaxHist}

PromptValues == {JNull, JNum(0), JNum(5)} \cup {JStr(s) : s \in Strs}
UserPromptValues == {JNull, JStr(<<"a">>)}
MessagesValues == {JNull, JList(<< >>), JStr(<<"a">>)} \cup {JList(h) : h \in Histories}

Body(prompt, user_prompt, msgs) ==
  Dict([prompt |-> prompt, user_prompt |-> user_prompt, messages |-> msgs])

ObjectBodies ==
  {Body(p, u, m) : p \in PromptValues, u \in UserPromptValues, m \in MessagesValues}

\* Bodies that are no JSON, or JSON that is no object.
OtherBodies == {NotJson, JNull, JList(<< >>), JList(<<JNum(5)>>), JStr(<<"a">>), JNum(5)}

Bodies == ObjectBodies \cup OtherBodies

\* What the openai client (line 8) hands back: a ChatCompletion with no or one
\* choice, whose usage is None or a CompletionUsage object. A message always
\* carries its role; message, content and finish_reason may be None, which is
\* what lines 142-153 test for.
CompletionUsage == [t |-> "CompletionUsage"]
ChatMessages ==
  [t : {"message"}, content : {JNull, EmptyStr, JStr(<<"a">>)}, role : {Lit("assistant")}]
Choices ==
  [t : {"choice"}, message : {JNull} \cup ChatMessages, finish_reason : {JNull, Lit("stop")}]
Completions ==
  [t : {"completion"}, choices : {<< >>} \cup {<<c>> : c \in Choices},
   usage : {JNull, CompletionUsage}]

\* An exception raised by the call, with the text str(exc) gives.
UpstreamException == [t |-> "exc", text |-> Lit("upstream error text")]

Replies == Completions \cup {UpstreamException}

Environments ==
  LET env(e1, e2, d1, d2, key) ==
        [n \in EnvNames |->
           CASE n = "AZURE_OPENAI_ENDPOINT" -> e1
             [] n = "ENDPOINT_URL" -> e2
             [] n = "AZURE_OPENAI_DEPLOYMENT" -> d1
             [] n = "DEPLOYMENT_NAME" -> d2
             [] n = "AZURE_OPENAI_API_KEY" -> key]
      v == JStr(<<"a">>)
  IN { env(v, JNull, v, JNull, v),
       env(JNull, v, JNull, v, v),
       env(EmptyStr, JNull, v, JNull, v),
       env(v, JNull, v, JNull, JNull) }

(* ------------------------------- state -------------------------------- *)
VARIABLES
  environ,        \* os.environ, as left by load_dotenv (line 10)
  cache,          \* what lru_cache holds for build_client, NoConfig when empty
  clients,        \* number of AzureOpenAI clients constructed so far
  envReads,       \* number of runs of the body of build_client so far
  pc,             \* where each worker thread stands in the handler
  req,            \* the body of the request a thread handles
  messages,       \* the thread's normalized message list (line 122)
  config,         \* the thread's result of build_client (line 125)
  completion,     \* what the upstream call gave the thread (line 126)
  upstreamCalls,  \* number of upstream calls the thread made for its request
  response        \* the outcome of the thread's request

vars ==
  <<environ, cache, clients, envReads, pc, req, messages, config,
    completion, upstreamCalls, response>>

Threads == 1..MaxThreads

NoRequest == [t |-> "none"]

Init ==
  /\ environ \in Environments
  /\ cache = NoConfig
  /\ clients = 0
  /\ envReads = 0
  /\ pc = [t \in Threads |-> "idle"]
  /\ req = [t \in Threads |-> NoRequest]
  /\ messages = [t \in Threads |-> << >>]
  /\ config = [t \in Threads |-> NoConfig]
  /\ completion = [t \in Threads |-> JNull]
  /\ upstreamCalls = [t \in Threads |-> 0]
  /\ response = [t \in Threads |-> NoResponse]

\* Flask hands the POST /api/route-plan request with body raw to thread t. No
\* request is received any more once build_client ran MaxResolutions times.
Receive(t, raw) ==
  /\ pc[t] = "idle"
  /\ envReads < MaxResolutions
  /\ pc' = [pc EXCEPT ![t] = "handler"]
  /\ req' = [req EXCEPT ![t] = raw]
  /\ UNCHANGED <<environ, cache, clients, envReads, messages, config, completion,
                 upstreamCalls, response>>

\* Lines 112-122: parse, validate, normalize.
generate_route_plan(t) ==
  /\ pc[t] = "handler"
  /\ LET payload == payload_of(req[t])
         prompt == prompt_of(payload)
     IN IF ~prompt.ok
          THEN /\ response' = [response EXCEPT ![t] = Unhandled(prompt.exc)]
               /\ pc' = [pc EXCEPT ![t] = "done"]
               /\ UNCHANGED messages
        ELSE LET user_messages == user_messages_of(payload) IN
          IF MissingInput(prompt.v, user_messages)
            THEN /\ response' = [response EXCEPT ![t] = BadRequest]
                 /\ pc' = [pc EXCEPT ![t] = "done"]
                 /\ UNCHANGED messages
          ELSE LET normalized == _normalize_messages(history_of(user_messages), prompt.v) IN
            IF ~normalized.ok
              THEN /\ response' = [response EXCEPT ![t] = Unhandled(normalized.exc)]
                   /\ pc' = [pc EXCEPT ![t] = "done"]
                   /\ UNCHANGED messages
            ELSE /\ messages' = [messages EXCEPT ![t] = normalized.v]
                 /\ pc' = [pc EXCEPT ![t] = "resolve"]
                 /\ UNCHANGED response
  /\ UNCHANGED <<environ, cache, clients, envReads, req, config, completion,
                 upstreamCalls>>

\* Line 125, the lru_cache wrapper of line 47: a hit returns the cached result,
\* a miss goes on to run the body of build_client.
lru_cache_lookup(t) ==
  /\ pc[t] = "resolve"
  /\ IF cache # NoConfig
       THEN /\ config' = [config EXCEPT ![t] = cache]
            /\ pc' = [pc EXCEPT ![t] = "call"]
       ELSE /\ pc' = [pc EXCEPT ![t] = "build"]
            /\ UNCHANGED config
  /\ UNCHANGED <<environ, cache, clients, envReads, req, messages, completion,
                 upstreamCalls, response>>

\* Lines 50-65 run by thread t; ConfigurationError is caught at line 132.
build_client(t) ==
  /\ pc[t] = "build"
  /\ envReads' = envReads + 1
  /\ LET built == build_client_body(environ, clients) IN
       IF built.ok
         THEN /\ config' = [config EXCEPT ![t] = built.v]
              /\ clients' = clients + 1
              /\ pc' = [pc EXCEPT ![t] = "store"]
              /\ UNCHANGED response
       ELSE /\ response' = [response EXCEPT ![t] = ConfigFailure]
            /\ pc' = [pc EXCEPT ![t] = "done"]
            /\ UNCHANGED <<config, clients>>
  /\ UNCHANGED <<environ, cache, req, messages, completion, upstreamCalls>>

\* lru_cache_store that stores whatever the thread computed.
lru_cache_store_overwrite(t) ==
  /\ pc[t] = "store"
  /\ cache' = config[t]
  /\ pc' = [pc EXCEPT ![t] = "call"]
  /\ UNCHANGED <<environ, clients, envReads, req, messages, config, completion,
                 upstreamCalls, response>>

\* The lru_cache wrapper after the body returned: the result is stored unless
\* the key was stored meanwhile, and the caller gets the result it computed.
lru_cache_store(t) ==
  /\ pc[t] = "store"
  /\ cache' = IF cache = NoConfig THEN config[t] ELSE cache
  /\ pc' = [pc EXCEPT ![t] = "call"]
  /\ UNCHANGED <<environ, clients, envReads, req, messages, config, completion,
                 upstreamCalls, response>>

\* create_completion that calls once more when the call raised.
create_completion_retry(t, reply) ==
  /\ pc[t] = "call"
  /\ upstreamCalls' = [upstreamCalls EXCEPT ![t] = IF reply.t = "exc" THEN @ + 2 ELSE @ + 1]
  /\ completion' = [completion EXCEPT ![t] = reply]
  /\ req' = [req EXCEPT ![t] = NoRequest]
  /\ messages' = [messages EXCEPT ![t] = << >>]
  /\ IF reply.t = "exc"
       THEN /\ response' = [response EXCEPT ![t] = UpstreamFailure(reply)]
            /\ pc' = [pc EXCEPT ![t] = "done"]
       ELSE /\ pc' = [pc EXCEPT ![t] = "shape"]
            /\ UNCHANGED response
  /\ UNCHANGED <<environ, cache, clients, envReads, config>>

\* Lines 126-138: the upstream call, answered by reply. The request body and
\* the message list are not read after it.
create_completion(t, reply) ==
  /\ pc[t] = "call"
  /\ upstreamCalls' = [upstreamCalls EXCEPT ![t] = @ + 1]
  /\ completion' = [completion EXCEPT ![t] = reply]
  /\ req' = [req EXCEPT ![t] = NoRequest]
  /\ messages' = [messages EXCEPT ![t] = << >>]
  /\ IF reply.t = "exc"
       THEN /\ response' = [response EXCEPT ![t] = UpstreamFailure(reply)]
            /\ pc' = [pc EXCEPT ![t] = "done"]
       ELSE /\ pc' = [pc EXCEPT ![t] = "shape"]
            /\ UNCHANGED response
  /\ UNCHANGED <<environ, cache, clients, envReads, config>>

\* Lines 140-156.
shape_response(t) ==
  /\ pc[t] = "shape"
  /\ LET sent == jsonify(response_payload(completion[t])) IN
       response' = [response EXCEPT ![t] = IF sent.ok THEN sent.v ELSE Unhandled(sent.exc)]
  /\ pc' = [pc EXCEPT ![t] = "done"]
  /\ UNCHANGED <<environ, cache, clients, envReads, req, messages, config,
                 completion, upstreamCalls>>

\* The response is sent and the thread is free for the next request.
Reply(t) ==
  /\ pc[t] = "done"
  /\ pc' = [pc EXCEPT ![t] = "idle"]
  /\ req' = [req EXCEPT ![t] = NoRequest]
  /\ messages' = [messages EXCEPT ![t] = << >>]
  /\ config' = [config EXCEPT ![t] = NoConfig]
  /\ completion' = [completion EXCEPT ![t] = JNull]
  /\ upstreamCalls' = [upstreamCalls EXCEPT ![t] = 0]
  /\ response' = [response EXCEPT ![t] = NoResponse]
  /\ UNCHANGED <<environ, cache, clients, envReads>>

\* A step of thread t, the upstream answering with one of replies.
Step(t, replies) ==
  \/ generate_route_plan(t)
  \/ lru_cache_lookup(t)
  \/ build_client(t)
  \/ lru_cache_store(t)
  \/ \E reply \in replies : create_completion(t, reply)
  \/ shape_response(t)
  \/ Reply(t)

\* One request at a time on one worker, any body.
Next ==
  \/ \E raw \in Bodies : Receive(1, raw)
  \/ \E t \in Threads : Step(t, Replies)

Spec == Init /\ [][Next]_vars

\* Requests handled concurrently by the worker threads: a request with a
\* prompt or an empty one, the upstream raising or answering with one choice.
ConcBodies == {Body(JStr(<<"a">>), JNull, JNull), Body(JNull, JNull, JNull)}

ConcReplies ==
  { UpstreamException,
    [t |-> "completion",
     choices |-> <<[t |-> "choice",
                    message |-> [t |-> "message", content |-> JStr(<<"a">>),
                                 role |-> Lit("assistant")],
                    finish_reason |-> Lit("stop")]>>,
     usage |-> JNull] }

NextConc ==
  \/ \E t \in Threads : \E raw \in ConcBodies : Receive(t, raw)
  \/ \E t \in Threads : Step(t, ConcReplies)

SpecConc == Init /\ [][NextConc]_vars

(* ===================== the claims, read off the spec =================== *)
(* What the claims speak of is defined here from their wording, apart from *)
(* the operators that model the code.                                      *)

\* The field k of a request body; absent when the body is no JSON object.
Field(raw, k) == IF raw.t = "obj" /\ k \in DOMAIN raw.f THEN raw.f[k] ELSE JNull

IsString(v) == v.t = "str"

\* The request's prompt fields are what the payload declares them to be:
\* strings, when present.
PromptTyped(raw) ==
  \A k \in {"prompt", "user_prompt"} : Field(raw, k) = JNull \/ IsString(Field(raw, k))

\* The request's prompt: `prompt` when it is a non-empty string, else `user_prompt`.
ChosenPrompt(raw) ==
  LET p == Field(raw, "prompt")
  IN IF IsString(p) /\ p # EmptyStr THEN p ELSE Field(raw, "user_prompt")

\* s without its leading and trailing whitespace: the part from the first to
\* the last character that is no whitespace.
Trimmed(s) ==
  LET solid == {i \in 1..Len(s) : s[i] # " "}
  IN IF solid = {} THEN << >>
     ELSE LET first == CHOOSE i \in solid : \A j \in solid : i <= j
              last == CHOOSE i \in solid : \A j \in solid : j <= i
          IN SubSeq(s, first, last)

\* The prompt is empty after trimming (an absent prompt is empty).
PromptEmpty(raw) ==
  LET p == ChosenPrompt(raw)
  IN p = JNull \/ (IsString(p) /\ Trimmed(p.s) = << >>)

\* The prompt is a string that is not empty after trimming.
PromptGiven(raw) ==
  LET p == ChosenPrompt(raw)
  IN IsString(p) /\ Trimmed(p.s) # << >>

MessagesEmptyOrAbsent(raw) == Field(raw, "messages") \in {JNull, JList(<< >>)}

\* The history of a request: its `messages` when that is a list.
History(raw) ==
  LET m == Field(raw, "messages")
  IN IF m.t = "list" THEN m.items ELSE << >>

\* A history entry is kept when it is an object with a role and with a content
\* that is a string or a sequence.
HasRole(e) == e.t = "obj" /\ "role" \in DOMAIN e.f /\ e.f["role"] \notin {JNull, EmptyStr}
WellShaped(e) == e.t = "obj" /\ "content" \in DOMAIN e.f /\ e.f["content"].t \in {"str", "list"}
Kept(e) == HasRole(e) /\ WellShaped(e)
Malformed(e) == ~Kept(e)

SystemMessage == [role |-> Lit("system"), content |-> JList(<<TextPart(SYSTEM_PROMPT)>>)]

\* A kept entry as a chat message: string content wrapped as one text part.
AsChatMessage(e) ==
  [role |-> e.f["role"],
   content |-> IF e.f["content"].t = "str" THEN JList(<<TextPart(e.f["content"])>>)
               ELSE e.f["content"]]

KeptMessages(h) ==
  LET kept == SelectSeq(h, Kept)
  IN [i \in 1..Len(kept) |-> AsChatMessage(kept[i])]

ExpectedMessages(raw) ==
  <<SystemMessage>> \o KeptMessages(History(raw)) \o
    (IF PromptGiven(raw)
       THEN <<[role |-> Lit("user"),
               content |-> JList(<<TextPart(JStr(Trimmed(ChosenPrompt(raw).s)))>>)]>>
     ELSE << >>)

Occurrences(list, m) == Cardinality({i \in 1..Len(list) : list[i] = m})

\* Thread t holds the normalized message list of its request.
Normalized(t) == pc[t] \in {"resolve", "build", "store", "call"}

C2_SystemExactlyOnce ==
  \A t \in Threads :
    pc[t] = "call" =>
      /\ messages[t][1] = SystemMessage
      /\ Occurrences(messages[t], SystemMessage) = 1

(* C2 amended: the list sent upstream starts with the system message, and   *)
(* holds it once more for every history entry of role "system" whose        *)
(* content is the instruction text (as a string or as its one text part).   *)
RepeatsSystem(e) == Kept(e) /\ AsChatMessage(e) = SystemMessage

C2_SystemFirst ==
  \A t \in Threads :
    pc[t] = "call" =>
      /\ messages[t][1] = SystemMessage
      /\ Occurrences(messages[t], SystemMessage)
           = 1 + Len(SelectSeq(History(req[t]), RepeatsSystem))

\* A list is about to be sent whose history carried a system entry.
C2_Witness ==
  \E t \in Threads :
    /\ pc[t] = "call"
    /\ \E i \in 1..Len(History(req[t])) : RepeatsSystem(History(req[t])[i])
    /\ Len(messages[t]) > 2

(* C3: the normalized list is the system message, then the kept history     *)
(* entries in input order (string content wrapped as one text part, list    *)
(* content unchanged), then one user message with the trimmed prompt if and *)
(* only if the prompt (a string) is not empty after trimming.               *)
C3_NormalizedList ==
  \A t \in Threads :
    Normalized(t) /\ PromptTyped(req[t]) => messages[t] = ExpectedMessages(req[t])

\* Two kept entries of different content shapes and a whitespace-only prompt.
C3_Witness ==
  \E t \in Threads :
    /\ Normalized(t)
    /\ Len(History(req[t])) = 2
    /\ Kept(History(req[t])[1]) /\ Kept(History(req[t])[2])
    /\ History(req[t])[1] # History(req[t])[2]
    /\ Field(req[t], "prompt") = JStr(<<" ">>)
    /\ Len(messages[t]) = 3

\* The request passes the validation: it has a prompt or messages.
Validated(raw) ==
  /\ raw.t = "obj"
  /\ PromptTyped(raw)
  /\ PromptGiven(raw) \/ ~MessagesEmptyOrAbsent(raw)

HasMalformedEntry(raw) == \E i \in 1..Len(History(raw)) : Malformed(History(raw)[i])

(* C4 as stated: history entries that lack a role or a content, or whose    *)
(* content is neither a string nor a sequence, are left out of the          *)
(* normalized list, and a request with such an entry is not ended by an     *)
(* error raised for it.                                                     *)
C4_MalformedEntriesDropped ==
  \A t \in Threads :
    /\ Normalized(t) /\ PromptTyped(req[t]) =>
         Len(messages[t]) = Len(ExpectedMessages(req[t]))
    /\ pc[t] = "done" /\ Validated(req[t]) /\ HasMalformedEntry(req[t]) =>
         response[t].kind # "raised"

\* The environment names an endpoint, a deployment and an API key.
Set(name) == environ[name] \notin {JNull, EmptyStr}
EnvComplete ==
  /\ Set("AZURE_OPENAI_ENDPOINT") \/ Set("ENDPOINT_URL")
  /\ Set("AZURE_OPENAI_DEPLOYMENT") \/ Set("DEPLOYMENT_NAME")
  /\ Set("AZURE_OPENAI_API_KEY")

(* C5 as stated: when endpoint, deployment or API key is missing, no        *)
(* upstream call is made, no configuration is ever cached (every            *)
(* resolution fails anew), and every validated request is answered 500 with *)
(* the configuration error message in the JSON field `error`.               *)
C5_MissingConfigIs500 ==
  ~EnvComplete =>
    /\ cache = NoConfig
    /\ \A t \in Threads :
         /\ upstreamCalls[t] = 0
         /\ pc[t] = "done" /\ Validated(req[t]) =>
              /\ response[t].kind = "json"
              /\ response[t].status = 500
              /\ response[t].body = [k \in {"error"} |-> ConfigurationErrorMessage]

(* C6: a request for which the configuration has been resolved makes        *)
(* exactly one upstream call; when that call raises, the request is         *)
(* answered 502 with the JSON fields `error` and `detail` and the call is   *)
(* not made again.                                                          *)
C6_OneUpstreamCall ==
  \A t \in Threads :
    /\ upstreamCalls[t] <= 1
    /\ upstreamCalls[t] = 1 => config[t] # NoConfig
    /\ pc[t] \in {"shape", "done"} /\ config[t] # NoConfig => upstreamCalls[t] = 1
    /\ completion[t].t = "exc" =>
         /\ pc[t] = "done"
         /\ response[t].kind = "json"
         /\ response[t].status = 502
         /\ DOMAIN response[t].body = {"error", "detail"}

\* A request whose upstream call raised has been answered.
C6_Witness ==
  \E t \in Threads :
    /\ pc[t] = "done"
    /\ config[t] # NoConfig
    /\ completion[t].t = "exc"
    /\ upstreamCalls[t] = 1
    /\ response[t].kind = "json" /\ response[t].status = 502

(* C7 as stated: every request ends in one of the JSON outcomes 200, 400,   *)
(* 500 or 502; no exception leaves the handler.                             *)
C7_AlwaysStructured ==
  \A t \in Threads :
    pc[t] = "done" =>
      /\ response[t].kind = "json"
      /\ response[t].status \in {200, 400, 500, 502}

(* C8 as stated: a body that is no JSON, or JSON that is no object, is      *)
(* handled as the empty object and answered 400.                            *)
C8_NonObjectBodyIs400 ==
  \A t \in Threads :
    pc[t] = "done" /\ req[t].t \in {"bad", "null", "str", "num", "list"} =>
      /\ response[t].kind = "json"
      /\ response[t].status = 400

\* What the upstream result provides.
FirstChoice(c) == IF c.choices = << >> THEN JNull ELSE c.choices[1]
ProvidedMessage(c) == IF FirstChoice(c) = JNull THEN JNull ELSE FirstChoice(c).message
ProvidedContent(c) ==
  IF ProvidedMessage(c) = JNull \/ ProvidedMessage(c).content = JNull THEN EmptyStr
  ELSE ProvidedMessage(c).content
ProvidedFinish(c) == IF FirstChoice(c) = JNull THEN JNull ELSE FirstChoice(c).finish_reason
ProvidedRole(c) == IF ProvidedMessage(c) = JNull THEN JNull ELSE ProvidedMessage(c).role

(* C10 as stated: after a successful upstream call the response is 200 with *)
(* `content` the first choice's message content (the empty string without   *)
(* one), `usage` always present, `finish_reason` present exactly when the   *)
(* upstream result gave one and `message_role` present exactly when it      *)
(* gave a responding role.                                                  *)
C10_SuccessIs200 ==
  \A t \in Threads :
    pc[t] = "done" /\ completion[t].t = "completion" =>
      /\ response[t].kind = "json"
      /\ response[t].status = 200
      /\ "content" \in DOMAIN response[t].body
      /\ response[t].body["content"] = ProvidedContent(completion[t])
      /\ "usage" \in DOMAIN response[t].body
      /\ "finish_reason" \in DOMAIN response[t].body <=> ProvidedFinish(completion[t]) # JNull
      /\ "message_role" \in DOMAIN response[t].body <=> ProvidedRole(completion[t]) # JNull

(* C9 as stated: whatever the interleaving of requests, the configuration   *)
(* is resolved at most once (one read of the environment, one client), and  *)
(* every request that got a configuration got that one cached result.       *)
C9_ResolvedAtMostOnce ==
  /\ envReads <= 1
  /\ clients <= 1
  /\ \A t \in Threads :
       pc[t] \in {"call", "shape", "done"} /\ config[t] # NoConfig => config[t] = cache

(* C9 amended: once a resolution has succeeded and its result is cached,    *)
(* the cached result never changes, and every request that resolves from    *)
(* then on gets that result without the environment being read or a client  *)
(* constructed.                                                             *)
C9_CachedResultReused ==
  [][ /\ cache # NoConfig => cache' = cache
      /\ \A t \in Threads :
           (pc[t] = "resolve" /\ cache # NoConfig /\ pc'[t] # "resolve") =>
             /\ pc'[t] = "call"
             /\ config'[t] = cache
             /\ envReads' = envReads
             /\ clients' = clients ]_vars

\* Two requests in flight hold the cached result, and the environment was read once.
C9_Witness ==
  \E t, u \in Threads :
    /\ t # u
    /\ pc[t] = "call" /\ pc[u] = "call"
    /\ cache # NoConfig
    /\ config[t] = cache /\ config[u] = cache
    /\ envReads = 1

====
